---- MODULE Spec2Model ----
(***************************************************************************)
(* Model of the survey GUI client (src/app.py): FirebaseAuth, RealtimeDB,  *)
(* LoginFrame, MainFrame, DetailFrame and SurveyGUI, run against the       *)
(* remote authentication service and the remote JSON store.  One GUI       *)
(* process is modelled in full; other running instances of the same        *)
(* application appear as Peer actions that execute the same handlers       *)
(* against the shared store.  Every event handler is one atomic action     *)
(* (single-threaded event dispatch); each HTTP request made inside a       *)
(* handler may succeed or fail, chosen by the set `fails` of positions     *)
(* (in the handler's order of store requests) whose request fails.         *)
(*                                                                         *)
(* Python values: None / absent is the empty set and a present value x is  *)
(* the singleton {x}; strings that the code trims or splits are sequences  *)
(* of one-character strings.                                               *)
(***************************************************************************)
EXTENDS Integers, Sequences, FiniteSets, TLC

\* ------------------------------------------------------------ bounds
MaxQuestions == 1
MaxAnswers == 1

\* ------------------------------------------------------------ universe
Users == {"U1", "U2"}

\* Accounts known to the authentication service.
Accounts ==
  [U1 |-> [email |-> <<"a", "@", "x">>, password |-> <<"p">>],
   U2 |-> [email |-> <<"b", "@", "x">>, password |-> <<"p">>]]

\* What the user may type into the login form.
EmailInputs == {<<>>, <<" ", "a", "@", "x">>, <<"z">>}
PasswordInputs == {<<" ">>, <<"p", " ">>, <<"q">>}
\* Result of simpledialog.askstring: None on cancel, else the text.
NameInputs == {{}, {<<"n">>}}
\* What the user may type into a title / body / answer field.
TitleInputs == {<<" ">>, <<" ", "t">>}
BodyInputs == {<<" ">>, <<"c", " ">>}

Unknown == <<"unknown">>      \* the label returned when no profile is found
Nameless == <<"nameless">>    \* the default of u_data.get("name", ...)
NoTitle == <<"no title">>     \* the default of q_data.get("name", ...)

None == {}
Some(x) == {x}
The(s) == CHOOSE x \in s : TRUE

\* ------------------------------------------------------------ str helpers
RECURSIVE lstrip(_)
lstrip(s) == IF s # <<>> /\ Head(s) = " " THEN lstrip(Tail(s)) ELSE s

RECURSIVE rstrip(_)
rstrip(s) ==
  IF s # <<>> /\ s[Len(s)] = " " THEN rstrip(SubSeq(s, 1, Len(s) - 1)) ELSE s

strip(s) == rstrip(lstrip(s))

\* email.split("@")[0]
RECURSIVE split_at_0(_)
split_at_0(s) ==
  IF s = <<>> \/ Head(s) = "@" THEN <<>> ELSE <<Head(s)>> \o split_at_0(Tail(s))

\* ------------------------------------------------------------ state
VARIABLES
  store_users,      \* remote store: users/<uid> -> None or {profile}
  store_questions,  \* remote store: questions, keyed by position (the generated id)
  store_answers,    \* remote store: answers/<q>/<id>, as <<[q, a_data]>> in creation order
  id_token, user_id, email, refresh_token,   \* FirebaseAuth fields
  db,               \* SurveyGUI.db is set
  user_cache,       \* SurveyGUI.user_cache: uid -> None or {name}
  frame,            \* which frame the container shows
  tree,             \* MainFrame.tree rows, in order
  questions_map,    \* MainFrame.questions_map: row -> question id
  questions_data,   \* MainFrame.questions_data: set of [qid, q_data]
  dialog,           \* a post dialog of the MainFrame is open
  question_id, question_data,  \* DetailFrame fields (None when no DetailFrame)
  answers_text,     \* DetailFrame.answers_text contents
  answers,          \* the value load_answers last fetched (its local `answers`)
  trace,            \* store requests issued by the last handler, in order
  last,             \* what the last handler was and what it decided
  fetched,          \* user ids whose profile this process has requested so far
  requested,        \* this process has issued a store request
  signed_in         \* a sign_in of this process has returned True

vars ==
  <<store_users, store_questions, store_answers, id_token, user_id, email,
    refresh_token, db, user_cache, frame, tree, questions_map, questions_data,
    dialog, question_id, question_data, answers_text, answers, trace, last,
    fetched, requested, signed_in>>

\* ------------------------------------------------------------ requests
Req(op, coll, uid, qid, ok) ==
  [op |-> op, coll |-> coll, uid |-> uid, qid |-> qid, ok |-> ok]

\* Whether the next store request of the handler succeeds.
ReqOk(tr, fails) == (Len(tr) + 1) \notin fails

NoLast ==
  [act |-> "init", called |-> FALSE, status_code |-> 0, ret |-> FALSE,
   em |-> <<>>, pw |-> <<>>, title |-> <<>>, body |-> <<>>, posted |-> FALSE]

\* ------------------------------------------------------------ FirebaseAuth
\* The authentication service's answer to signInWithPassword.
AuthData(u) ==
  [idToken |-> <<"id", u>>, localId |-> u, email |-> Accounts[u].email,
   refreshToken |-> <<"refresh", u>>]

AuthResponse(em, pw) ==
  IF \E u \in Users : Accounts[u].email = em /\ Accounts[u].password = pw
  THEN [status_code |-> 200,
        data |-> AuthData(CHOOSE u \in Users :
                            Accounts[u].email = em /\ Accounts[u].password = pw)]
  ELSE [status_code |-> 400, data |-> [error |-> [message |-> "INVALID"]]]

\* sign_in with a slip: a failed call resets the session fields.
sign_in_resets(self, em, pw, net_ok) ==
  LET reset == [id_token |-> None, user_id |-> None, email |-> None,
                refresh_token |-> None]
      response == AuthResponse(em, pw)
      data == response.data
  IN IF ~net_ok
     THEN [ret |-> FALSE, status_code |-> 0, self |-> reset]
     ELSE IF response.status_code = 200
          THEN [ret |-> TRUE, status_code |-> 200,
                self |-> [id_token |-> Some(data.idToken),
                          user_id |-> Some(data.localId),
                          email |-> Some(data.email),
                          refresh_token |-> Some(data.refreshToken)]]
          ELSE [ret |-> FALSE, status_code |-> response.status_code, self |-> reset]

\* FirebaseAuth.sign_in on the session `self`; net_ok = FALSE is a transport
\* failure (requests.post or response.json() raises).  status_code 0 stands
\* for "no response".
sign_in(self, em, pw, net_ok) ==
  IF ~net_ok
  THEN [ret |-> FALSE, status_code |-> 0, self |-> self]
  ELSE LET response == AuthResponse(em, pw)
           data == response.data
       IN IF response.status_code = 200
          THEN [ret |-> TRUE, status_code |-> 200,
                self |-> [id_token |-> Some(data.idToken),
                          user_id |-> Some(data.localId),
                          email |-> Some(data.email),
                          refresh_token |-> Some(data.refreshToken)]]
          ELSE [ret |-> FALSE, status_code |-> response.status_code, self |-> self]

\* ------------------------------------------------------------ RealtimeDB
\* RealtimeDB.get: the parsed body, or None on a failed request; an absent
\* node is null (None) as well.
db_get_user(users, uid, ok) == IF ok THEN users[uid] ELSE None

db_get_questions(qs, ok) == IF ok /\ qs # <<>> THEN Some(qs) ELSE None

\* The children of answers/<qid>, each with its generated id.
AnswersOf(as, qid) ==
  LET ids == {i \in 1..Len(as) : as[i].q = qid}
      RECURSIVE pick(_)
      pick(i) ==
        IF i > Len(as) THEN <<>>
        ELSE (IF i \in ids THEN <<[aid |-> i, a_data |-> as[i].a_data]>> ELSE <<>>)
             \o pick(i + 1)
  IN pick(1)

db_get_answers(as, qid, ok) ==
  IF ok /\ AnswersOf(as, qid) # <<>> THEN Some(AnswersOf(as, qid)) ELSE None

\* post of an answer with a slip: the child is added under answers/ itself,
\* not under answers/<question id>.
db_post_answer_unnested(as, qid, data, ok) ==
  IF ok THEN [key |-> Some(Len(as) + 1),
              store |-> Append(as, [q |-> 0, a_data |-> data])]
  ELSE [key |-> None, store |-> as]

\* RealtimeDB.post: appends a child under a generated key and returns the
\* key, or None on a failed request.
db_post_question(qs, data, ok) ==
  IF ok THEN [key |-> Some(Len(qs) + 1), store |-> Append(qs, data)]
  ELSE [key |-> None, store |-> qs]

db_post_answer(as, qid, data, ok) ==
  IF ok THEN [key |-> Some(Len(as) + 1),
              store |-> Append(as, [q |-> qid, a_data |-> data])]
  ELSE [key |-> None, store |-> as]

\* RealtimeDB.put on users/<uid>.
db_put_user(users, uid, data, ok) ==
  IF ok THEN [ret |-> TRUE, store |-> [users EXCEPT ![uid] = Some(data)]]
  ELSE [ret |-> FALSE, store |-> users]

\* ------------------------------------------------------------ SurveyGUI
\* `not user_data or not user_data.get("name")`
ProfileUnnamed(user_data) ==
  \/ user_data = None
  \/ "name" \notin DOMAIN The(user_data)
  \/ The(user_data).name = <<>>

\* SurveyGUI._setup_user_profile; new_name is what askstring returns.
setup_user_profile(uid, em, users, cache, tr, new_name, fails) ==
  LET ok1 == ReqOk(tr, fails)
      tr1 == Append(tr, Req("GET", "users", uid, 0, ok1))
      user_data == db_get_user(users, uid, ok1)
  IN IF ProfileUnnamed(user_data)
     THEN LET name == IF new_name = None \/ The(new_name) = <<>>
                      THEN split_at_0(em) ELSE The(new_name)
              profile == [name |-> name, email |-> em, id |-> uid]
              ok2 == ReqOk(tr1, fails)
              put == db_put_user(users, uid, profile, ok2)
          IN [users |-> put.store,
              cache |-> [cache EXCEPT ![uid] = Some(name)],
              trace |-> Append(tr1, Req("PUT", "users", uid, 0, ok2))]
     ELSE [users |-> users,
           cache |-> [cache EXCEPT ![uid] = Some(The(user_data).name)],
           trace |-> tr1]

\* get_user_name with a slip: the cache is not consulted before fetching.
get_user_name_uncached(st, uid, dbset, users, fails) ==
  IF ~dbset
  THEN [cache |-> st.cache, trace |-> st.trace, name |-> Unknown]
  ELSE LET ok == (Len(st.trace) + 1) \notin fails
           tr == Append(st.trace, [op |-> "GET", coll |-> "users", uid |-> uid,
                                   qid |-> 0, ok |-> ok])
           u_data == IF ok THEN users[uid] ELSE None
       IN IF u_data # None
          THEN LET name == IF "name" \in DOMAIN The(u_data)
                           THEN The(u_data).name ELSE Nameless
               IN [cache |-> [st.cache EXCEPT ![uid] = Some(name)],
                   trace |-> tr, name |-> name]
          ELSE [cache |-> st.cache, trace |-> tr, name |-> Unknown]

\* SurveyGUI.get_user_name; st carries the cache and the request trace.
get_user_name(st, uid, dbset, users, fails) ==
  IF st.cache[uid] # None
  THEN [cache |-> st.cache, trace |-> st.trace, name |-> The(st.cache[uid])]
  ELSE IF ~dbset
  THEN [cache |-> st.cache, trace |-> st.trace, name |-> Unknown]
  ELSE LET ok == ReqOk(st.trace, fails)
           tr == Append(st.trace, Req("GET", "users", uid, 0, ok))
           u_data == db_get_user(users, uid, ok)
       IN IF u_data # None
          THEN LET name == IF "name" \in DOMAIN The(u_data)
                           THEN The(u_data).name ELSE Nameless
               IN [cache |-> [st.cache EXCEPT ![uid] = Some(name)],
                   trace |-> tr, name |-> name]
          ELSE [cache |-> st.cache, trace |-> tr, name |-> Unknown]

\* ------------------------------------------------------------ MainFrame
\* The loop of MainFrame.load_questions over questions.items().
RECURSIVE load_questions_rows(_, _, _, _, _, _)
load_questions_rows(st, questions, qid, dbset, users, fails) ==
  IF qid > Len(questions) THEN st
  ELSE LET q_data == questions[qid]
           author == get_user_name(st, q_data.sender, dbset, users, fails)
           title == IF "name" \in DOMAIN q_data THEN q_data.name ELSE NoTitle
       IN load_questions_rows(
            [cache |-> author.cache, trace |-> author.trace,
             tree |-> Append(st.tree, [title |-> title, author |-> author.name]),
             questions_map |-> Append(st.questions_map, qid),
             questions_data |->
               st.questions_data \cup {[qid |-> qid, q_data |-> q_data]}],
            questions, qid + 1, dbset, users, fails)

\* MainFrame.load_questions.
load_questions(cache, tr, dbset, qs, users, fails) ==
  LET ok == ReqOk(tr, fails)
      questions == db_get_questions(qs, ok)
      cleared == [cache |-> cache,
                  trace |-> Append(tr, Req("GET", "questions", "", 0, ok)),
                  tree |-> <<>>, questions_map |-> <<>>, questions_data |-> {}]
  IN IF questions = None THEN cleared
     ELSE load_questions_rows(cleared, The(questions), 1, dbset, users, fails)

\* ------------------------------------------------------------ DetailFrame
NoAnswersLine == [kind |-> "none"]

\* The loop of DetailFrame.load_answers over answers.items().
RECURSIVE load_answers_rows(_, _, _, _, _, _)
load_answers_rows(st, listed, i, dbset, users, fails) ==
  IF i > Len(listed) THEN st
  ELSE LET a_data == listed[i].a_data
           name == get_user_name(st, a_data.sender, dbset, users, fails)
       IN load_answers_rows(
            [cache |-> name.cache, trace |-> name.trace,
             answers_text |->
               Append(st.answers_text,
                      [kind |-> "answer", name |-> name.name, body |-> a_data.body]),
             answers |-> st.answers],
            listed, i + 1, dbset, users, fails)

\* DetailFrame.load_answers for the frame's question_id.
load_answers(cache, tr, dbset, as, qid, users, fails) ==
  LET ok == ReqOk(tr, fails)
      got == db_get_answers(as, qid, ok)
      tr1 == Append(tr, Req("GET", "answers", "", qid, ok))
  IN IF got = None
     THEN [cache |-> cache, trace |-> tr1,
           answers_text |-> <<NoAnswersLine>>, answers |-> got]
     ELSE load_answers_rows(
            [cache |-> cache, trace |-> tr1, answers_text |-> <<>>, answers |-> got],
            The(got), 1, dbset, users, fails)

\* ------------------------------------------------------------ initial state
InitProfiles(u) == {None, Some([email |-> Accounts[u].email, id |-> u])}

Init ==
  /\ store_users \in {f \in [Users -> UNION {InitProfiles(u) : u \in Users}] :
                        \A u \in Users : f[u] \in InitProfiles(u)}
  /\ store_questions = <<>>
  /\ store_answers = <<>>
  /\ id_token = None /\ user_id = None /\ email = None /\ refresh_token = None
  /\ db = FALSE
  /\ user_cache = [u \in Users |-> None]
  /\ frame = "login"
  /\ tree = <<>> /\ questions_map = <<>> /\ questions_data = {}
  /\ dialog = FALSE
  /\ question_id = None /\ question_data = None
  /\ answers_text = <<>> /\ answers = None
  /\ trace = <<>>
  /\ last = NoLast
  /\ fetched = {}
  /\ requested = FALSE
  /\ signed_in = FALSE

\* ------------------------------------------------------------ bookkeeping
Last(act) == [NoLast EXCEPT !.act = act]

ProfileGets(tr) ==
  {tr[i].uid : i \in {j \in 1..Len(tr) : tr[j].op = "GET" /\ tr[j].coll = "users"}}

Issued(tr) ==
  /\ trace' = tr
  /\ fetched' = fetched \cup ProfileGets(tr)
  /\ requested' = (requested \/ tr # <<>>)

Session == [id_token |-> id_token, user_id |-> user_id, email |-> email,
            refresh_token |-> refresh_token]

MainVars == <<tree, questions_map, questions_data, dialog>>
DetailVars == <<question_id, question_data, answers_text, answers>>
AuthVars == <<id_token, user_id, email, refresh_token>>
StoreVars == <<store_users, store_questions, store_answers>>

\* ------------------------------------------------------------ LoginFrame
\* `if not email or not password`
credentials_missing(em, pw) == em = <<>> \/ pw = <<>>

\* login with a slip: show_main_frame is called whatever sign_in returned.
frame_after_login_always_main(ret) == "main"

\* The frame shown when login returns: show_main_frame is called only in the
\* branch where sign_in returned True.
frame_after_login(ret) == IF ret THEN "main" ELSE "login"

\* LoginFrame.login (the login button), with SurveyGUI._setup_user_profile
\* and SurveyGUI.show_main_frame (MainFrame.__init__ -> load_questions).
Login(email_in, pass_in, new_name, net_ok, fails) ==
  /\ frame = "login"
  /\ \E em \in {strip(email_in)}, pw \in {strip(pass_in)} :
       IF credentials_missing(em, pw)
       THEN /\ last' = [Last("login") EXCEPT !.em = em, !.pw = pw]
            /\ Issued(<<>>)
            /\ UNCHANGED <<StoreVars, AuthVars, db, user_cache, frame, MainVars,
                           DetailVars, signed_in>>
       ELSE \E r \in {sign_in(Session, em, pw, net_ok)} :
         /\ last' = [Last("login") EXCEPT !.called = TRUE, !.em = em, !.pw = pw,
                       !.status_code = r.status_code, !.ret = r.ret]
         /\ signed_in' = (signed_in \/ r.ret)
         /\ frame' = frame_after_login(r.ret)
         /\ id_token' = r.self.id_token
         /\ user_id' = r.self.user_id
         /\ email' = r.self.email
         /\ refresh_token' = r.self.refresh_token
         /\ IF r.ret
            THEN \E p \in {setup_user_profile(The(r.self.user_id), The(r.self.email),
                                               store_users, user_cache, <<>>,
                                               new_name, fails)} :
                 \E l \in {load_questions(p.cache, p.trace, TRUE, store_questions,
                                          p.users, fails)} :
                   /\ db' = TRUE
                   /\ store_users' = p.users
                   /\ user_cache' = l.cache
                   /\ tree' = l.tree
                   /\ questions_map' = l.questions_map
                   /\ questions_data' = l.questions_data
                   /\ dialog' = FALSE
                   /\ Issued(l.trace)
                   /\ UNCHANGED <<store_questions, store_answers, DetailVars>>
            ELSE /\ Issued(<<>>)
                 /\ UNCHANGED <<StoreVars, db, user_cache, MainVars, DetailVars>>

\* ------------------------------------------------------------ MainFrame actions
\* MainFrame.open_post_dialog (the post button), pressed while no dialog is open.
OpenPostDialog ==
  /\ frame = "main"
  /\ ~dialog
  /\ dialog' = TRUE
  /\ last' = Last("open_post_dialog")
  /\ Issued(<<>>)
  /\ UNCHANGED <<StoreVars, AuthVars, db, user_cache, frame, tree, questions_map,
                 questions_data, DetailVars, signed_in>>

\* The question record with a slip: title and body are exchanged.
question_record_swapped(title, body, sender) ==
  [name |-> body, body |-> title, sender |-> sender]

\* The record open_post_dialog.submit builds.
question_record(title, body, sender) ==
  [name |-> title, body |-> body, sender |-> sender]

\* The validation with a slip: `and` in place of `or`.
fields_missing_both(title, body) == title = <<>> /\ body = <<>>

\* `if not title or not body`
fields_missing(title, body) == title = <<>> \/ body = <<>>

\* open_post_dialog.submit (the dialog's button).
Submit(title_in, body_in, fails) ==
  /\ frame = "main"
  /\ dialog
  /\ Len(store_questions) < MaxQuestions
  /\ \E title \in {strip(title_in)}, body \in {strip(body_in)} :
       IF fields_missing(title, body)
       THEN /\ last' = [Last("submit") EXCEPT !.title = title, !.body = body]
            /\ Issued(<<>>)
            /\ UNCHANGED <<StoreVars, AuthVars, db, user_cache, frame, MainVars,
                           DetailVars, signed_in>>
       ELSE \E post \in {db_post_question(store_questions,
                                          question_record(title, body, The(user_id)),
                                          ReqOk(<<>>, fails))} :
            \E tr1 \in {<<Req("POST", "questions", "", 0, post.key # None)>>} :
         /\ last' = [Last("submit") EXCEPT !.title = title,
                       !.body = body, !.posted = (post.key # None)]
         /\ store_questions' = post.store
         /\ IF post.key # None
            THEN \E l \in {load_questions(user_cache, tr1, db, post.store,
                                          store_users, fails)} :
                   /\ dialog' = FALSE
                   /\ user_cache' = l.cache
                   /\ tree' = l.tree
                   /\ questions_map' = l.questions_map
                   /\ questions_data' = l.questions_data
                   /\ Issued(l.trace)
            ELSE /\ Issued(tr1)
                 /\ UNCHANGED <<user_cache, MainVars>>
         /\ UNCHANGED <<store_users, store_answers, AuthVars, db, frame, DetailVars,
                        signed_in>>

\* The row lookup with a slip: the row's position is taken for one past the
\* question id.
selected_question_off_by_one(item, qmap, qdata) ==
  IF item > Len(qmap) THEN None
  ELSE LET qid == qmap[item]
       IN IF \E e \in qdata : e.qid = qid
          THEN Some([qid |-> qid + 1,
                     q_data |-> (CHOOSE e \in qdata : e.qid = qid).q_data])
          ELSE None

\* The question a selected row opens: questions_map.get(item) and
\* questions_data.get(qid).
selected_question(item, qmap, qdata) ==
  IF item > Len(qmap) THEN None
  ELSE LET qid == qmap[item]
       IN IF \E e \in qdata : e.qid = qid
          THEN Some(CHOOSE e \in qdata : e.qid = qid) ELSE None

\* MainFrame.on_item_double_click on a selected row that maps to a question
\* (otherwise the handler returns at once), with SurveyGUI.show_detail_frame
\* (DetailFrame.__init__ -> get_user_name, load_answers).
DoubleClick(item, fails) ==
  /\ frame = "main"
  /\ \E sel \in {selected_question(item, questions_map, questions_data)} :
       /\ sel # None
       /\ \E author \in {get_user_name([cache |-> user_cache, trace |-> <<>>],
                                         The(sel).q_data.sender, db, store_users,
                                         fails)} :
            \E l \in {load_answers(author.cache, author.trace, db, store_answers,
                                   The(sel).qid, store_users, fails)} :
         /\ last' = Last("double_click")
         /\ frame' = "detail"
         /\ tree' = <<>> /\ questions_map' = <<>> /\ questions_data' = {}
         /\ dialog' = FALSE
         /\ question_id' = Some(The(sel).qid)
         /\ question_data' = Some(The(sel).q_data)
         /\ user_cache' = l.cache
         /\ answers_text' = l.answers_text
         /\ answers' = l.answers
         /\ Issued(l.trace)
         /\ UNCHANGED <<StoreVars, AuthVars, db, signed_in>>

\* ------------------------------------------------------------ DetailFrame actions
\* DetailFrame.go_back -> SurveyGUI.show_main_frame.
GoBack(fails) ==
  /\ frame = "detail"
  /\ \E l \in {load_questions(user_cache, <<>>, db, store_questions, store_users,
                              fails)} :
        /\ frame' = "main"
        /\ user_cache' = l.cache
        /\ tree' = l.tree
        /\ questions_map' = l.questions_map
        /\ questions_data' = l.questions_data
        /\ dialog' = FALSE
        /\ question_id' = None /\ question_data' = None
        /\ answers_text' = <<>> /\ answers' = None
        /\ last' = Last("go_back")
        /\ Issued(l.trace)
        /\ UNCHANGED <<StoreVars, AuthVars, db, signed_in>>

\* The record DetailFrame.submit_answer builds.
answer_record(qid, body, sender) ==
  [target |-> qid, body |-> body, sender |-> sender]

\* DetailFrame.submit_answer (the send button).
SubmitAnswer(body_in, fails) ==
  /\ frame = "detail"
  /\ Len(store_answers) < MaxAnswers
  /\ \E body \in {strip(body_in)}, qid \in question_id :
       IF body = <<>>
       THEN /\ last' = Last("submit_answer")
            /\ Issued(<<>>)
            /\ UNCHANGED <<StoreVars, AuthVars, db, user_cache, frame, MainVars,
                           DetailVars, signed_in>>
       ELSE \E post \in {db_post_answer(store_answers, qid,
                                        answer_record(qid, body, The(user_id)),
                                        ReqOk(<<>>, fails))} :
            \E tr1 \in {<<Req("POST", "answers", "", qid, post.key # None)>>} :
         /\ last' = [Last("submit_answer") EXCEPT !.body = body, !.posted = (post.key # None)]
         /\ store_answers' = post.store
         /\ IF post.key # None
            THEN \E l \in {load_answers(user_cache, tr1, db, post.store, qid,
                                        store_users, fails)} :
                   /\ user_cache' = l.cache
                   /\ answers_text' = l.answers_text
                   /\ answers' = l.answers
                   /\ Issued(l.trace)
            ELSE /\ Issued(tr1)
                 /\ UNCHANGED <<user_cache, answers_text, answers>>
         /\ UNCHANGED <<store_users, store_questions, AuthVars, db, frame,
                        MainVars, question_id, question_data, signed_in>>

\* ------------------------------------------------------------ other instances
\* Other running instances of the application share the store.  A peer step
\* is a handler of another instance that changed the store (its requests
\* succeeded, or its profile read failed); handlers of other instances that
\* leave the store as it is are not steps of this model.
LocalVars ==
  <<AuthVars, db, user_cache, frame, MainVars, DetailVars, fetched, requested,
    signed_in>>

\* Another instance, signed in as u, runs _setup_user_profile after its login
\* and writes the profile.
PeerSetupProfile(u, new_name, get_ok) ==
  /\ store_users' = setup_user_profile(u, Accounts[u].email, store_users,
                                       [v \in Users |-> None], <<>>, new_name,
                                       {i \in {1} : ~get_ok}).users
  /\ store_users' # store_users
  /\ trace' = <<>>
  /\ last' = Last("peer")
  /\ UNCHANGED <<store_questions, store_answers, LocalVars>>

\* Another instance, signed in as u, submits its post dialog.
PeerSubmit(u, title_in, body_in) ==
  /\ Len(store_questions) < MaxQuestions
  /\ strip(title_in) # <<>> /\ strip(body_in) # <<>>
  /\ store_questions' =
       db_post_question(store_questions,
                        question_record(strip(title_in), strip(body_in), u),
                        TRUE).store
  /\ trace' = <<>>
  /\ last' = Last("peer")
  /\ UNCHANGED <<store_users, store_answers, LocalVars>>

\* Another instance, signed in as u, sends an answer from the detail frame it
\* opened for a row of its question list.
PeerSubmitAnswer(u, qid, body_in) ==
  /\ Len(store_answers) < MaxAnswers
  /\ qid \in 1..Len(store_questions)
  /\ strip(body_in) # <<>>
  /\ store_answers' =
       db_post_answer(store_answers, qid, answer_record(qid, strip(body_in), u),
                      TRUE).store
  /\ trace' = <<>>
  /\ last' = Last("peer")
  /\ UNCHANGED <<store_users, store_questions, LocalVars>>

\* ------------------------------------------------------------ specification
\* The sets of positions at which a handler's store requests may fail; n is
\* the largest number of requests the handler can issue in the current state.
Fails(n) == SUBSET (1..n)

\* Rows of a listing whose sender's name is not cached: each may cost a
\* profile request.
Uncached(senders) == Cardinality({i \in 1..Len(senders) : user_cache[senders[i]] = None})

QuestionSenders(qs) == [i \in 1..Len(qs) |-> qs[i].sender]

AnswerSenders == [i \in 1..Len(store_answers) |-> store_answers[i].a_data.sender]

ValidLogin(e, pw) == AuthResponse(strip(e), strip(pw)).status_code = 200

Next ==
  \/ \E e \in EmailInputs, pw \in PasswordInputs, net_ok \in BOOLEAN :
       \E n \in IF ValidLogin(e, pw) /\ net_ok THEN NameInputs ELSE {None},
          fails \in IF ValidLogin(e, pw) /\ net_ok
                    THEN Fails(3 + Len(store_questions)) ELSE {{}} :
          Login(e, pw, n, net_ok, fails)
  \/ OpenPostDialog
  \/ \E t \in TitleInputs, b \in BodyInputs :
       \E fails \in IF strip(t) # <<>> /\ strip(b) # <<>>
                    THEN Fails(3 + Uncached(QuestionSenders(store_questions)))
                    ELSE {{}} :
          Submit(t, b, fails)
  \/ \E item \in 1..Len(tree), fails \in Fails(2 + Uncached(AnswerSenders)) :
       DoubleClick(item, fails)
  \/ \E fails \in Fails(1 + Uncached(QuestionSenders(store_questions))) :
       GoBack(fails)
  \/ \E b \in BodyInputs :
       \E fails \in IF strip(b) # <<>> THEN Fails(3 + Uncached(AnswerSenders))
                    ELSE {{}} :
          SubmitAnswer(b, fails)
  \/ \E u \in Users, n \in NameInputs, get_ok \in BOOLEAN :
       PeerSetupProfile(u, n, get_ok)
  \/ \E u \in Users, t \in TitleInputs, b \in BodyInputs : PeerSubmit(u, t, b)
  \/ \E u \in Users, q \in 1..Len(store_questions), b \in BodyInputs :
       PeerSubmitAnswer(u, q, b)

Spec == Init /\ [][Next]_vars

\* ------------------------------------------------------------ sign_in alone
\* FirebaseAuth.sign_in called on a session in any state (the object may hold
\* the fields of an earlier sign_in or sign_up), with any credentials.
SessionValues(u) ==
  [id_token |-> {None, Some(AuthData(u).idToken)},
   user_id |-> {None, Some(AuthData(u).localId)},
   email |-> {None, Some(AuthData(u).email)},
   refresh_token |-> {None, Some(AuthData(u).refreshToken)}]

InitSignIn ==
  /\ id_token \in UNION {SessionValues(u).id_token : u \in Users}
  /\ user_id \in UNION {SessionValues(u).user_id : u \in Users}
  /\ email \in UNION {SessionValues(u).email : u \in Users}
  /\ refresh_token \in UNION {SessionValues(u).refresh_token : u \in Users}
  /\ store_users = [u \in Users |-> None]
  /\ store_questions = <<>>
  /\ store_answers = <<>>
  /\ db = FALSE
  /\ user_cache = [u \in Users |-> None]
  /\ frame = "login"
  /\ tree = <<>> /\ questions_map = <<>> /\ questions_data = {}
  /\ dialog = FALSE
  /\ question_id = None /\ question_data = None
  /\ answers_text = <<>> /\ answers = None
  /\ trace = <<>>
  /\ last = NoLast
  /\ fetched = {}
  /\ requested = FALSE
  /\ signed_in = FALSE

CallSignIn(em, pw, net_ok) ==
  \E r \in {sign_in(Session, em, pw, net_ok)} :
    /\ id_token' = r.self.id_token
    /\ user_id' = r.self.user_id
    /\ email' = r.self.email
    /\ refresh_token' = r.self.refresh_token
    /\ last' = [Last("sign_in") EXCEPT !.called = TRUE, !.em = em, !.pw = pw,
                  !.status_code = r.status_code, !.ret = r.ret]
    /\ signed_in' = (signed_in \/ r.ret)
    /\ UNCHANGED <<StoreVars, db, user_cache, frame, MainVars, DetailVars, trace,
                   fetched, requested>>

NextSignIn ==
  \E e \in EmailInputs \cup {Accounts[u].email : u \in Users},
     pw \in PasswordInputs, net_ok \in BOOLEAN :
    CallSignIn(strip(e), strip(pw), net_ok)

SpecSignIn == InitSignIn /\ [][NextSignIn]_vars

\* ============================================================ properties
ProfileGetsOf(tr, u) ==
  {i \in 1..Len(tr) : tr[i].op = "GET" /\ tr[i].coll = "users" /\ tr[i].uid = u}

Puts(tr) == {i \in 1..Len(tr) : tr[i].op = "PUT"}

\* The last handler fetched the questions collection / did so successfully.
Listed == \E i \in 1..Len(trace) : trace[i].op = "GET" /\ trace[i].coll = "questions"

ListedOk ==
  \E i \in 1..Len(trace) :
    trace[i].op = "GET" /\ trace[i].coll = "questions" /\ trace[i].ok

AnswersListedOk ==
  \E i \in 1..Len(trace) :
    trace[i].op = "GET" /\ trace[i].coll = "answers" /\ trace[i].ok

\* ------------------------------------------------------------ C1
\* C1: every call of sign_in that the service answers with status 200 sets
\* the four session fields from the response and returns True; every call
\* answered with another status, or failing in transport, returns False and
\* leaves the four fields exactly as they were before the call.
C1_SignInContract ==
  [][last'.act = "sign_in" =>
       /\ last'.status_code = 200 =>
            /\ last'.ret
            /\ id_token' = Some(AuthResponse(last'.em, last'.pw).data.idToken)
            /\ user_id' = Some(AuthResponse(last'.em, last'.pw).data.localId)
            /\ email' = Some(AuthResponse(last'.em, last'.pw).data.email)
            /\ refresh_token' =
                 Some(AuthResponse(last'.em, last'.pw).data.refreshToken)
       /\ last'.status_code # 200 =>
            /\ ~last'.ret
            /\ id_token' = id_token
            /\ user_id' = user_id
            /\ email' = email
            /\ refresh_token' = refresh_token]_vars

\* A failed call that left a session holding earlier values as it was.
C1_Witness ==
  /\ last.act = "sign_in"
  /\ last.status_code = 400
  /\ user_id = Some("U2")
  /\ email = Some(Accounts["U1"].email)

\* ------------------------------------------------------------ C2
\* C2: in the profile check after a successful sign-in, a stored profile of
\* the user with a non-empty name is adopted as the display name, no write
\* goes to the profile path and the stored profile is unchanged; a profile is
\* written only when the stored profile is absent or has no name.
C2_StoredProfileKept ==
  [][(last'.act = "login" /\ last'.ret) =>
       /\ ~ProfileUnnamed(store_users[The(user_id')]) =>
            /\ user_cache'[The(user_id')] =
                 Some(The(store_users[The(user_id')]).name)
            /\ Puts(trace') = {}
            /\ store_users' = store_users
       /\ Puts(trace') # {} => ProfileUnnamed(store_users[The(user_id')])]_vars

\* ------------------------------------------------------------ C3
\* C3 (as stated): a profile request made on a cache miss leaves a cached
\* entry for the id, also (a placeholder) when the profile is absent, and for
\* every id at most one profile request is issued in a run.
C3_AtMostOneFetch ==
  [][\A u \in Users :
       /\ (\E i \in ProfileGetsOf(trace', u) : trace'[i].ok) => user_cache'[u] # None
       /\ Cardinality(ProfileGetsOf(trace', u)) + (IF u \in fetched THEN 1 ELSE 0)
            <= 1]_vars

\* C3 (amended): once a name is cached for an id no profile request for that
\* id is issued again; a request that returns a profile caches its name (the
\* default label when the profile has no name); a request that fails or finds
\* no profile caches nothing, so the placeholder is only returned.
C3_CachedNameNotRefetched ==
  [][\A u \in Users :
       /\ user_cache[u] # None => ProfileGetsOf(trace', u) = {}
       /\ (\E i \in ProfileGetsOf(trace', u) : trace'[i].ok /\ store_users[u] # None)
            => user_cache'[u] # None
       /\ (user_cache[u] = None /\ user_cache'[u] # None) =>
            \/ last'.act = "login" /\ user_id' = Some(u)
            \/ /\ \E i \in ProfileGetsOf(trace', u) : trace'[i].ok
               /\ store_users[u] # None
               /\ user_cache'[u] =
                    Some(IF "name" \in DOMAIN The(store_users[u])
                         THEN The(store_users[u]).name ELSE Nameless)]_vars

\* A listing showed the placeholder for a sender whose profile was requested,
\* and nothing was cached for that sender.
C3_Witness ==
  \E u \in Users :
    /\ ProfileGetsOf(trace, u) # {}
    /\ user_cache[u] = None
    /\ \E i \in 1..Len(tree) : tree[i].author = Unknown

\* ------------------------------------------------------------ C4
\* The list shows exactly the stored questions: one entry per generated id,
\* each with the stored title, body and sender.
ListShowsStore ==
  /\ Len(questions_map) = Len(store_questions)
  /\ Len(tree) = Len(store_questions)
  /\ \A i \in 1..Len(store_questions) :
       /\ questions_map[i] = i
       /\ tree[i].title = store_questions[i].name
  /\ questions_data =
       {[qid |-> i, q_data |-> store_questions[i]] : i \in 1..Len(store_questions)}

C4_ListState ==
  /\ ListedOk => ListShowsStore
  /\ (Listed /\ ~ListedOk) => (tree = <<>> /\ questions_data = {})
  /\ (last.act = "submit" /\ last.posted) =>
       store_questions[Len(store_questions)] =
         [name |-> last.title, body |-> last.body, sender |-> The(user_id)]

C4_AppendOnly ==
  /\ Len(store_questions') >= Len(store_questions)
  /\ SubSeq(store_questions', 1, Len(store_questions)) = store_questions

AnswerShown ==
  /\ answers # None
  /\ \E i \in 1..Len(The(answers)) :
       /\ The(answers)[i].a_data.body = last.body
       /\ The(answers)[i].a_data.sender = The(user_id)
       /\ The(answers)[i].a_data.target = The(question_id)
  /\ \E i \in 1..Len(answers_text) :
       /\ answers_text[i].kind = "answer"
       /\ answers_text[i].body = last.body
       /\ answers_text[i].name = The(user_cache[The(user_id)])

\* The answer just posted is stored under the detail view's question only.
StoredUnderQuestionOnly ==
  /\ store_answers[Len(store_answers)].q = The(question_id)
  /\ \A q \in 1..Len(store_questions) :
       (\E i \in 1..Len(AnswersOf(store_answers, q)) :
           AnswersOf(store_answers, q)[i].aid = Len(store_answers))
         => q = The(question_id)

C6_AuthGate ==
  /\ frame \in {"main", "detail"} =>
       (signed_in /\ id_token # None /\ user_id # None /\ db)
  /\ frame \in {"login", "main", "detail"}
  /\ frame = "login" => (~db /\ ~requested /\ fetched = {})
  /\ (last.act = "login" /\ (last.em = <<>> \/ last.pw = <<>>)) =>
       (~last.called /\ frame = "login")
  /\ (last.act = "login" /\ ~last.ret) =>
       (frame = "login" /\ ~db /\ ~requested /\ trace = <<>>)

\* A sign_in was attempted and failed.
C6_Witness ==
  /\ last.act = "login" /\ last.called /\ ~last.ret
  /\ frame = "login"

\* ------------------------------------------------------------ C7
\* C7: once a store request of a handler has failed, the handler issues no
\* further store request.
C7_NoRequestAfterFailure ==
  \A i, j \in 1..Len(trace) : i < j => trace[i].ok

\* ------------------------------------------------------------ C8
C8_Stored ==
  /\ \A i \in 1..Len(store_questions) :
       /\ store_questions[i].name # <<>>
       /\ store_questions[i].body # <<>>
       /\ store_questions[i].sender \in Users
  /\ \A i \in 1..Len(store_answers) :
       /\ store_answers[i].a_data.body # <<>>
       /\ store_answers[i].a_data.sender \in Users

C8_Step ==
  /\ (last'.act = "submit" /\ (last'.title = <<>> \/ last'.body = <<>>)) =>
       (trace' = <<>> /\ UNCHANGED <<store_questions, store_answers>>)
  /\ (last'.act = "submit_answer" /\ last'.body = <<>>) =>
       (trace' = <<>> /\ UNCHANGED <<store_questions, store_answers>>)
  /\ (last'.act = "submit" /\ store_questions' # store_questions) =>
       /\ store_questions' =
            Append(store_questions,
                   [name |-> last'.title, body |-> last'.body,
                    sender |-> The(user_id)])
       /\ user_id # None
  /\ (last'.act = "submit_answer" /\ store_answers' # store_answers) =>
       /\ Len(store_answers') = Len(store_answers) + 1
       /\ store_answers'[Len(store_answers')].a_data.body = last'.body
       /\ store_answers'[Len(store_answers')].a_data.sender = The(user_id)
       /\ user_id # None

\* C8: a submit with a title or body that is empty after trimming, and an
\* answer submit with such a body, issue no store request and leave both
\* collections unchanged; every stored question has a non-empty name and body
\* and every stored answer a non-empty body, with the id of the signed-in
\* user who posted it as sender.
C8_ValidationPrecedesWrites == []C8_Stored /\ [][C8_Step]_vars

\* A post was submitted with an empty title and a body.
C8_Witness ==
  /\ last.act = "submit"
  /\ last.title = <<>>
  /\ last.body # <<>>

\* ------------------------------------------------------------ C9
\* C9: an entry of the display-name cache is never removed or changed, also
\* when the stored profile name of that id changes afterwards.
C9_CacheAppendOnly ==
  [][\A u \in Users : user_cache[u] # None => user_cache'[u] = user_cache[u]]_vars

\* Another instance has just changed a profile whose name is cached here
\* with another value.
C9_Witness ==
  /\ last.act = "peer"
  /\ \E u \in Users :
       /\ user_cache[u] # None
       /\ store_users[u] # None
       /\ "name" \in DOMAIN The(store_users[u])
       /\ The(store_users[u]).name # The(user_cache[u])

\* ------------------------------------------------------------ C10
\* C10: every stored answer has its target equal to the question id it is
\* stored under, and that id is the id of a stored question; a detail view is
\* only ever open for a stored question.
C10_AnswersReferToQuestions ==
  /\ \A i \in 1..Len(store_answers) :
       /\ store_answers[i].a_data.target = store_answers[i].q
       /\ store_answers[i].q \in 1..Len(store_questions)
  /\ frame = "detail" =>
       /\ question_id # None
       /\ The(question_id) \in 1..Len(store_questions)
       /\ question_data = Some(store_questions[The(question_id)])

\* An answer sent from this process's detail view is in the store.
C10_Witness ==
  /\ last.act = "submit_answer" /\ last.posted
  /\ Len(store_answers) >= 1
  /\ store_answers[Len(store_answers)].a_data.sender = The(user_id)
====
